---- MODULE Spec2Model ----
(***************************************************************************)
(* A model of the connection fabric of noise: the TTL object pool          *)
(* (pool/pool.go) and the peer index, dial path and inbound envelope path  *)
(* of the network node (network/network.go, network/client.go and the      *)
(* address resolver).                                                      *)
(***************************************************************************)
EXTENDS Integers, Sequences, FiniteSets, TLC

(***************************************************************************)
(* Bounds of the pool model.                                               *)
(***************************************************************************)
MaxTime == 3
MaxObjs == 2
NProcs == 2

Keys == {"foo", "bar"}
\* Keys the concurrent callers contend for.
ConcKeys == {"foo"}
Durations == {2}
Procs == 1..NProcs
Oids == 1..MaxObjs
NoObj == 0
NoTime == -1

VARIABLES
    now,          \* time.Now()
    objects,      \* Pool.objects: key -> object pointer (NoObj: no mapping)
    nObj,         \* number of Object values allocated so far
    oHandle,      \* Object.handle, per object pointer
    oExp,         \* *Object.expiresAt
    oAlive,       \* Object.config.AliveFor
    closes,       \* number of Close() calls made on the handle read from the object
    pc,           \* per caller: position in the operation it runs
    lk,           \* per caller: key argument of the running operation
    lobj,         \* per caller: obj loaded by getObject / Get
    lexp,         \* per caller: newExpTime computed by GetAndRenew
    curTime,      \* per caller: Gc's curTime
    toScan,       \* per caller: keys Range has visited
    expired,      \* per caller: Gc's expired slice
    oKey,         \* history: key an object was added under
    addedAt,      \* history: time of the Add that made the object
    disturbed,    \* history: a later Add/Remove of the object's key happened
    renewUntil,   \* history: time of the last renewal (before expiry) + AliveFor
    gcDeleted,    \* history, per Gc run: objects its Delete removed from the map
    gcClosed,     \* history, per Gc run: objects whose handle it closed
    renewedMid,   \* history, per Gc run: objects renewed between its two phases
    second,       \* history, per Gc run: it directly follows a completed Gc
    quiet,        \* history: a Gc completed and nothing happened since
    replaced      \* history: the object the Add that has just run overwrote in the map

poolVars == <<now, objects, nObj, oHandle, oExp, oAlive, closes, pc, lk, lobj,
              lexp, curTime, toScan, expired, oKey, addedAt, disturbed,
              renewUntil, gcDeleted, gcClosed, renewedMid, second, quiet,
              replaced>>

(***************************************************************************)
(* The network node (network.go, client.go, the address resolver).         *)
(***************************************************************************)
MaxClients == 2
MaxInbound == 1
NDialers == 2
NTasks == 3
MaxK == 2
NBoot == 2
MaxBoot == 2

VARIABLES
    peers,        \* Network.Peers: address -> client (NoClient: no mapping)
    nClients,     \* number of PeerClient values created so far
    inbound,      \* clients created by handleMux for an accepted connection
    cId,          \* PeerClient.Id (Nil before the first envelope)
    cSess,        \* PeerClient.Session: "nil", "open" or "closed"
    routes,       \* Network.Routes: the ids the routing table holds
    dpc,          \* per Dial call: position
    dArg,         \* per Dial call: the address argument
    dAddr,        \* per Dial call: the unified address
    dClient,      \* per Dial call: the client created / returned
    dRes,         \* per Dial call: the error returned ("nil": none)
    tpc,          \* per inbound stream: position of handleMessage
    tClient,      \* per inbound stream: the client of its session
    tEnv,         \* per inbound stream: the envelope it carries
    tOut,         \* per inbound stream: how handleMessage ended
    tStream,      \* per inbound stream: "none", "open" or "closed"
    handled,      \* streams whose envelope reached a registered processor
    updated,      \* streams whose sender was passed to Routes.Update
    firstId,      \* history, per client: the id its first binding set
    tLate,        \* history, per stream: it arrived after its client's id was bound
    bpc,          \* BroadcastRandomly: position
    bK,           \* BroadcastRandomly: K
    bScan,        \* BroadcastRandomly: keys Range has visited
    bAddrs,       \* BroadcastRandomly: addresses
    bPassed,      \* addresses handed to BroadcastByAddresses
    bTold,        \* clients that received a Tell from BroadcastByAddresses
    bTodo,        \* BroadcastByAddresses: addresses still to go
    fpc,          \* FilterPeers: "idle", or "done" once a call has returned
    fSelf,        \* FilterPeers: the address argument
    fIn,          \* FilterPeers: the peers argument
    fOut,         \* FilterPeers: the list returned
    rpc,          \* reestablishConnection: position
    rClient,      \* reestablishConnection: the client it runs on
    rAttempt,     \* reestablishConnection: attempt
    rRes,         \* reestablishConnection: the error returned ("nil": none)
    closedClients,\* history: clients on which close() has run
    rOld,         \* history: what reestablishConnection did with the old session
    rSessAtReturn,\* history: the client's session when reestablishConnection returned
    opc,          \* Tell / Request: position
    oKind,        \* "tell" or "request"
    oClient,      \* Tell / Request: the client it is called on
    oStream,      \* Tell / Request: its stream, "none", "open" or "closed"
    oRes,         \* Tell / Request: the error returned ("nil": none)
    oWrote,       \* Tell / Request: an envelope was written to the stream
    oSeen,        \* Tell / Request: the session as the call last found it
    lpc,          \* Listen: position
    lchan,        \* Network.Listening: tokens in its buffer
    lcap,         \* Network.Listening: its capacity
    wpc,          \* per Bootstrap call: "idle", "waiting" or "passed"
    bootPc,       \* Bootstrap past line 104: position
    bootRunner,   \* the Bootstrap call that is past line 104
    bootIn,       \* Bootstrap: the addresses argument
    bootFiltered, \* Bootstrap: the list FilterPeers returned
    bootTodo,     \* Bootstrap: the addresses still to range over
    bootClient,   \* Bootstrap: the client Dial returned
    bootLog,      \* history: per address ranged over, how Dial and Tell ended
    bootSent      \* history: addresses a HandshakeRequest was sent to

\* The peer index, the dial path, the inbound path and the broadcasts.
coreVars == <<peers, nClients, inbound, cId, cSess, routes, dpc, dArg, dAddr,
              dClient, dRes, tpc, tClient, tEnv, tOut, tStream, handled,
              updated, firstId, tLate, bpc, bK, bScan, bAddrs, bPassed, bTold, bTodo>>

filterVars == <<fpc, fSelf, fIn, fOut>>

reconVars == <<rpc, rClient, rAttempt, rRes, closedClients, rOld,
               rSessAtReturn>>

outVars == <<opc, oKind, oClient, oStream, oRes, oWrote, oSeen>>

bootVars == <<lpc, lchan, lcap, wpc, bootPc, bootRunner, bootIn, bootFiltered,
              bootTodo, bootClient, bootLog, bootSent>>

\* What the dial path, the inbound path and the broadcasts leave alone.
auxVars == <<filterVars, reconVars, outVars, bootVars>>

netVars == <<coreVars, auxVars>>

brVars == <<bpc, bK, bScan, bAddrs, bPassed, bTold, bTodo>>

vars == <<poolVars, netVars>>

NotFound == <<0, FALSE>>

\* The handle passed to the n-th Add: every Add is given a handle of its own.
Handle(n) == 10 + n

Allocated == 1..nObj

(***************************************************************************)
(* Pure helpers of pool.go.                                                *)
(***************************************************************************)

\* An Add that stamps the entry with the current time only.
NewExpTimeNow(t, d) == t

\* time.Now().Add(cfg.AliveFor)
NewExpTime(t, d) == t + d

\* time.Now().Add(obj.config.AliveFor) in GetAndRenew
RenewExpTimeNoAdd(o, t) == t
RenewExpTime(o, t) == t + oAlive[o]

\* obj.expiresAt.Before(curTime)
BeforeFlipped(e, t) == t < e
Before(e, t) == e < t

\* p.objects.Delete(k)
DeleteKeepsKey(m, k) == m
Delete(m, k) == [m EXCEPT ![k] = NoObj]

\* Pool.getObject
getObject(k) == objects[k]

\* Pool.Get: (handle, ok)
Get(k) == IF getObject(k) = NoObj THEN NotFound ELSE <<oHandle[getObject(k)], TRUE>>

PoolInit ==
    /\ now = 0
    /\ objects = [k \in Keys |-> NoObj]
    /\ nObj = 0
    /\ oHandle = [o \in Oids |-> 0]
    /\ oExp = [o \in Oids |-> NoTime]
    /\ oAlive = [o \in Oids |-> 0]
    /\ closes = [o \in Oids |-> 0]
    /\ pc = [p \in Procs |-> "idle"]
    /\ lk = [p \in Procs |-> "nil"]
    /\ lobj = [p \in Procs |-> NoObj]
    /\ lexp = [p \in Procs |-> NoTime]
    /\ curTime = [p \in Procs |-> NoTime]
    /\ toScan = [p \in Procs |-> {}]
    /\ expired = [p \in Procs |-> <<>>]
    /\ oKey = [o \in Oids |-> "nil"]
    /\ addedAt = [o \in Oids |-> NoTime]
    /\ disturbed = [o \in Oids |-> FALSE]
    /\ renewUntil = [o \in Oids |-> NoTime]
    /\ gcDeleted = [p \in Procs |-> {}]
    /\ gcClosed = [p \in Procs |-> {}]
    /\ renewedMid = [p \in Procs |-> {}]
    /\ second = [p \in Procs |-> FALSE]
    /\ quiet = FALSE
    /\ replaced = NoObj

\* Objects a later Add/Remove of key k disturbs: those added under k before.
Disturb(k) == [o \in Oids |-> disturbed[o] \/ (o \in Allocated /\ oKey[o] = k)]

Tick ==
    /\ now < MaxTime
    /\ UNCHANGED netVars
    /\ replaced' = NoObj
    /\ now' = now + 1
    /\ quiet' = FALSE
    /\ UNCHANGED <<objects, nObj, oHandle, oExp, oAlive, closes, pc, lk, lobj,
                   lexp, curTime, toScan, expired, oKey, addedAt,
                   disturbed, renewUntil, gcDeleted, gcClosed, renewedMid,
                   second>>

\* Pool.Add(key, value, cfg)
Add(p, k, d) ==
    /\ pc[p] = "idle"
    /\ UNCHANGED netVars
    /\ nObj < MaxObjs
    /\ LET o == nObj + 1 IN
        /\ nObj' = o
        /\ oHandle' = [oHandle EXCEPT ![o] = Handle(o)]
        /\ oExp' = [oExp EXCEPT ![o] = NewExpTime(now, d)]
        /\ oAlive' = [oAlive EXCEPT ![o] = d]
        /\ objects' = [objects EXCEPT ![k] = o]
        /\ disturbed' = Disturb(k)
        /\ oKey' = [oKey EXCEPT ![o] = k]
        /\ addedAt' = [addedAt EXCEPT ![o] = now]
        /\ replaced' = objects[k]
    /\ quiet' = FALSE
    /\ UNCHANGED <<now, closes, pc, lk, lobj, lexp, curTime, toScan, expired,
                   renewUntil, gcDeleted, gcClosed, renewedMid, second>>

\* Pool.Get(key), called by a user of the pool
GetCall(p, k) ==
    /\ pc[p] = "idle"
    /\ UNCHANGED netVars
    /\ Get(k) \in {NotFound} \cup {<<oHandle[o], TRUE>> : o \in Allocated}
    /\ UNCHANGED poolVars

\* Pool.Remove(key)
Remove(p, k) ==
    /\ pc[p] = "idle"
    /\ UNCHANGED netVars
    /\ replaced' = NoObj
    /\ objects[k] # NoObj
    /\ objects' = Delete(objects, k)
    /\ disturbed' = Disturb(k)
    /\ quiet' = FALSE
    /\ UNCHANGED <<now, nObj, oHandle, oExp, oAlive, closes, pc, lk, lobj,
                   lexp, curTime, toScan, expired, oKey, addedAt,
                   renewUntil, gcDeleted, gcClosed, renewedMid, second>>

\* Pool.GetAndRenew, lines 65-68: getObject
RenewLoad(p, k) ==
    /\ pc[p] = "idle"
    /\ UNCHANGED netVars
    /\ replaced' = NoObj
    /\ getObject(k) # NoObj      \* !ok: returns (nil, false), nothing changes
    /\ pc' = [pc EXCEPT ![p] = "renewNow"]
    /\ lk' = [lk EXCEPT ![p] = k]
    /\ lobj' = [lobj EXCEPT ![p] = getObject(k)]
    /\ UNCHANGED <<now, objects, nObj, oHandle, oExp, oAlive, closes, lexp,
                   curTime, toScan, expired, oKey, addedAt, disturbed,
                   renewUntil, gcDeleted, gcClosed, renewedMid, second, quiet>>

\* Pool.GetAndRenew, lines 70-71: the new expiry is computed from time.Now()
RenewNow(p) ==
    /\ pc[p] = "renewNow"
    /\ UNCHANGED netVars
    /\ replaced' = NoObj
    /\ lexp' = [lexp EXCEPT ![p] = RenewExpTime(lobj[p], now)]
    /\ pc' = [pc EXCEPT ![p] = "renewSwap"]
    \* history: a renewal of a present entry before its expiry sets the renewed deadline
    /\ renewUntil' = IF objects[lk[p]] = lobj[p] /\ now < oExp[lobj[p]]
                     THEN [renewUntil EXCEPT ![lobj[p]] = now + oAlive[lobj[p]]]
                     ELSE renewUntil
    /\ UNCHANGED <<now, objects, nObj, oHandle, oExp, oAlive, closes, lk, lobj,
                   curTime, toScan, expired, oKey, addedAt, disturbed,
                   gcDeleted, gcClosed, renewedMid, second, quiet>>

\* Gc runs that are between their phases (Range done, key of o still to be
\* handled) when o gets an expiry that is not before their curTime.
MidPhase(q, o) ==
    /\ objects[oKey[o]] = o
    /\ \/ pc[q] = "gcLoop" /\ \E i \in 1..Len(expired[q]) : expired[q][i] = oKey[o]
       \/ pc[q] = "gcDelete" /\ lobj[q] = o

\* Pool.GetAndRenew, lines 73-78: atomic.SwapPointer and return
RenewSwap(p) ==
    /\ pc[p] = "renewSwap"
    /\ UNCHANGED netVars
    /\ replaced' = NoObj
    /\ oExp' = [oExp EXCEPT ![lobj[p]] = lexp[p]]
    /\ pc' = [pc EXCEPT ![p] = "idle"]
    /\ lk' = [lk EXCEPT ![p] = "nil"]
    /\ lobj' = [lobj EXCEPT ![p] = NoObj]
    /\ lexp' = [lexp EXCEPT ![p] = NoTime]
    /\ renewedMid' = [q \in Procs |->
                        IF MidPhase(q, lobj[p]) /\ ~Before(lexp[p], curTime[q])
                        THEN renewedMid[q] \cup {lobj[p]}
                        ELSE renewedMid[q]]
    /\ quiet' = FALSE
    /\ UNCHANGED <<now, objects, nObj, oHandle, oAlive, closes, curTime,
                   toScan, expired, oKey, addedAt, disturbed, renewUntil,
                   gcDeleted, gcClosed, second>>

\* Pool.Gc, lines 87-88
GcStart(p) ==
    /\ pc[p] = "idle"
    /\ UNCHANGED netVars
    /\ replaced' = NoObj
    /\ curTime' = [curTime EXCEPT ![p] = now]
    /\ expired' = [expired EXCEPT ![p] = <<>>]
    /\ toScan' = [toScan EXCEPT ![p] = Keys]
    /\ pc' = [pc EXCEPT ![p] = "gcRange"]
    /\ gcDeleted' = [gcDeleted EXCEPT ![p] = {}]
    /\ gcClosed' = [gcClosed EXCEPT ![p] = {}]
    /\ renewedMid' = [renewedMid EXCEPT ![p] = {}]
    /\ second' = [second EXCEPT ![p] = quiet]
    /\ quiet' = FALSE
    /\ UNCHANGED <<now, objects, nObj, oHandle, oExp, oAlive, closes, lk, lobj,
                   lexp, oKey, addedAt, disturbed, renewUntil>>

\* Pool.Gc, lines 90-96: Range visits one more key (in the map's order)
GcRange(p) ==
    /\ pc[p] = "gcRange"
    /\ UNCHANGED netVars
    /\ replaced' = NoObj
    /\ \E k \in toScan[p] :
        /\ toScan' = [toScan EXCEPT ![p] = @ \ {k}]
        /\ expired' = [expired EXCEPT ![p] =
                         IF objects[k] # NoObj /\ Before(oExp[objects[k]], curTime[p])
                         THEN Append(@, k) ELSE @]
        /\ pc' = [pc EXCEPT ![p] = IF toScan[p] = {k} THEN "gcLoop" ELSE "gcRange"]
    /\ UNCHANGED <<now, objects, nObj, oHandle, oExp, oAlive, closes, lk, lobj,
                   lexp, curTime, oKey, addedAt, disturbed, renewUntil,
                   gcDeleted, gcClosed, renewedMid, second, quiet>>

\* Pool.Gc, lines 98-100: next k of expired, obj, ok := p.Get(k); the loop's end
GcLoop(p) ==
    /\ pc[p] = "gcLoop"
    /\ UNCHANGED netVars
    /\ replaced' = NoObj
    /\ IF expired[p] = <<>>
       THEN /\ pc' = [pc EXCEPT ![p] = "gcDone"]
            /\ quiet' = (now = curTime[p])
            /\ UNCHANGED <<lk, lobj, expired>>
       ELSE /\ expired' = [expired EXCEPT ![p] = Tail(@)]
            /\ IF Get(Head(expired[p]))[2]
               THEN /\ lk' = [lk EXCEPT ![p] = Head(expired[p])]
                    /\ lobj' = [lobj EXCEPT ![p] = getObject(Head(expired[p]))]
                    /\ pc' = [pc EXCEPT ![p] = "gcDelete"]
               ELSE UNCHANGED <<lk, lobj, pc>>
            /\ UNCHANGED quiet
    /\ UNCHANGED <<now, objects, nObj, oHandle, oExp, oAlive, closes, lexp,
                   curTime, toScan, oKey, addedAt, disturbed, renewUntil,
                   gcDeleted, gcClosed, renewedMid, second>>

\* Pool.Gc, line 101: p.objects.Delete(k)
GcDelete(p) ==
    /\ pc[p] = "gcDelete"
    /\ UNCHANGED netVars
    /\ replaced' = NoObj
    /\ objects' = Delete(objects, lk[p])
    /\ gcDeleted' = [gcDeleted EXCEPT ![p] =
                       IF objects'[lk[p]] = NoObj THEN @ \cup ({objects[lk[p]]} \ {NoObj}) ELSE @]
    /\ pc' = [pc EXCEPT ![p] = "gcClose"]
    /\ UNCHANGED <<now, nObj, oHandle, oExp, oAlive, closes, lk, lobj, lexp,
                   curTime, toScan, expired, oKey, addedAt, disturbed,
                   renewUntil, gcClosed, renewedMid, second, quiet>>

\* Pool.Gc, line 102: obj.Close()
GcClose(p) ==
    /\ pc[p] = "gcClose"
    /\ UNCHANGED netVars
    /\ replaced' = NoObj
    /\ closes' = [closes EXCEPT ![lobj[p]] = @ + 1]
    /\ gcClosed' = [gcClosed EXCEPT ![p] = @ \cup {lobj[p]}]
    /\ lk' = [lk EXCEPT ![p] = "nil"]
    /\ lobj' = [lobj EXCEPT ![p] = NoObj]
    /\ pc' = [pc EXCEPT ![p] = "gcLoop"]
    /\ UNCHANGED <<now, objects, nObj, oHandle, oExp, oAlive, lexp, curTime,
                   toScan, expired, oKey, addedAt, disturbed, renewUntil,
                   gcDeleted, renewedMid, second, quiet>>

\* Pool.Gc returns
GcReturn(p) ==
    /\ pc[p] = "gcDone"
    /\ UNCHANGED netVars
    /\ replaced' = NoObj
    /\ pc' = [pc EXCEPT ![p] = "idle"]
    /\ curTime' = [curTime EXCEPT ![p] = NoTime]
    /\ gcDeleted' = [gcDeleted EXCEPT ![p] = {}]
    /\ gcClosed' = [gcClosed EXCEPT ![p] = {}]
    /\ renewedMid' = [renewedMid EXCEPT ![p] = {}]
    /\ second' = [second EXCEPT ![p] = FALSE]
    /\ UNCHANGED <<now, objects, nObj, oHandle, oExp, oAlive, closes, lk, lobj,
                   lexp, toScan, expired, oKey, addedAt, disturbed,
                   renewUntil, quiet>>

\* One step of caller p
PoolStep(p, K) ==
    \/ \E k \in K, d \in Durations : Add(p, k, d)
    \/ \E k \in K : GetCall(p, k)
    \/ \E k \in K : Remove(p, k)
    \/ \E k \in K : RenewLoad(p, k)
    \/ RenewNow(p)
    \/ RenewSwap(p)
    \/ GcStart(p)
    \/ GcRange(p)
    \/ GcLoop(p)
    \/ GcDelete(p)
    \/ GcClose(p)
    \/ GcReturn(p)


(***************************************************************************)
(* Addresses.  A string that holds an address is a record: pre is what     *)
(* precedes the host ("tcp://", "//" or nothing), pad says whether white   *)
(* space surrounds it; EmptyStr is "".                                     *)
(***************************************************************************)
SelfPort == 3000
SelfHost == "127.0.0.1"
PeerPorts == {3001, 3002}

Str(pre, host, port) == [pre |-> pre, host |-> host, port |-> port, pad |-> FALSE]
Padded(a) == [a EXCEPT !.pad = TRUE]
EmptyStr == Str("", "", 0)

\* strings.TrimSpace
TrimSpace(a) == [a EXCEPT !.pad = FALSE]

NoInfo == [ok |-> FALSE, proto |-> "", host |-> "", port |-> 0]

\* ParseAddress: url.Parse and net.SplitHostPort accept "scheme://host:port"
\* and "//host:port"; "host:port" alone and a padded string are errors.
ParseAddress(a) ==
    IF a.pad \/ a.host = "" THEN NoInfo
    ELSE IF a.pre = "tcp://" THEN [ok |-> TRUE, proto |-> "tcp", host |-> a.host, port |-> a.port]
    ELSE IF a.pre = "//" THEN [ok |-> TRUE, proto |-> "", host |-> a.host, port |-> a.port]
    ELSE NoInfo

\* AddressInfo.String
InfoString(info) ==
    IF info.proto # "" THEN Str(info.proto \o "://", info.host, info.port)
    ELSE Str("", info.host, info.port)

\* net.ParseIP(host) != nil
IsIP(host) == host \in {"127.0.0.1", "::1"}

\* net.LookupHost: the records of the resolver the node runs against
LookupHost(host) ==
    IF host = "localhost" THEN <<"::1", "127.0.0.1">> ELSE <<>>

\* ToUnifiedHost: (host, ok)
ToUnifiedHost(host) ==
    IF IsIP(host) THEN <<host, TRUE>>
    ELSE IF LookupHost(host) = <<>> THEN <<"", FALSE>>
    ELSE IF LookupHost(host)[1] = "::1" THEN <<"127.0.0.1", TRUE>>
    ELSE <<LookupHost(host)[1], TRUE>>

\* ToUnifiedAddress: (address, ok)
ToUnifiedAddress(a) ==
    LET t == TrimSpace(a)
        info == ParseAddress(t)
        h == ToUnifiedHost(info.host)
    IN  IF t = EmptyStr \/ ~info.ok \/ ~h[2] THEN <<EmptyStr, FALSE>>
        ELSE <<InfoString([info EXCEPT !.host = h[1]]), TRUE>>

\* Network.Address: n.Host + ":" + strconv.Itoa(int(n.Port))
Address == Str("", SelfHost, SelfPort)

\* The address arguments Dial is called with.
DialInputs ==
    { Str("tcp://", "127.0.0.1", 3001), Str("tcp://", "localhost", 3001),
      Padded(Str("tcp://", "127.0.0.1", 3001)),
      Str("tcp://", "127.0.0.1", SelfPort), Str("//", "127.0.0.1", SelfPort),
      Str("", "127.0.0.1", 3001), Str("tcp://", "nohost", 3001),
      EmptyStr, Padded(EmptyStr) }

\* The entries of the lists Bootstrap is given.
BootAddrs ==
    { EmptyStr, Str("tcp://", "127.0.0.1", 3001), Str("tcp://", "localhost", 3001),
      Str("tcp://", "127.0.0.1", 3002), Str("tcp://", "127.0.0.1", SelfPort) }

(***************************************************************************)
(* Peer ids and envelopes.                                                 *)
(***************************************************************************)
NilId == [address |-> EmptyStr, publicKey |-> ""]
PeerX == [address |-> Str("", "127.0.0.1", 3001), publicKey |-> "kx"]
PeerY == [address |-> Str("", "127.0.0.1", 3002), publicKey |-> "ky"]
Senders == {PeerX, PeerY}

\* protobuf.Message: Sender, Signature (the key that made it), Message (body)
Envelope(sender, signer, body) == [sender |-> sender, signer |-> signer, body |-> body]
NoEnv == Envelope(NilId, "", "")
Envelopes ==
    { Envelope(PeerX, "kx", "known"), Envelope(PeerX, "kx", "unknown"),
      Envelope(PeerX, "kx", "malformed"), Envelope(PeerY, "ky", "known"),
      Envelope(PeerX, "ky", "known") }

\* verify(envelope.signature, envelope.sender.publicKey, envelope.body.value)
Verify(e) == e.signer = e.sender.publicKey

\* PeerClient.receiveMessage: the error it returns
receiveMessage(e) == IF Verify(e) THEN "nil" ELSE "invalid signature"

\* A handleMessage that goes on whatever receiveMessage returned.
FailedToReceiveIgnored(err) == FALSE

\* handleMessage, lines 107-111: if err != nil { return }
FailedToReceive(err) == err # "nil"

\* A return that leaves the stream as it is.
CloseStreamNever(st) == st

\* handleMessage, line 102, Tell, line 207, Request, line 230: defer stream.Close()
CloseStream(st) == "closed"

\* handleMessage, line 127: !c.Id.Equals(id)
IdDiffers(cur, id) == cur # id

Clients == 1..MaxClients
NoClient == 0
Dialers == 1..NDialers
BootCalls == 1..NBoot
Tasks == 1..NTasks

\* The keys Network.Peers can hold.
PeerKeys ==
    {ToUnifiedAddress(a)[1] :
        a \in {x \in DialInputs \cup BootAddrs : ToUnifiedAddress(x)[2]}}
        \cup {id.address : id \in Senders}

\* Insert into peers with insert-if-absent semantics.
Register(m, a, c) == IF m[a] = NoClient THEN [m EXCEPT ![a] = c] ELSE m

PeersSize == Cardinality({a \in PeerKeys : peers[a] # NoClient})

Min(a, b) == IF a < b THEN a ELSE b

NetInit ==
    /\ peers = [a \in PeerKeys |-> NoClient]
    /\ nClients = 0
    /\ inbound = {}
    /\ cId = [c \in Clients |-> NilId]
    /\ cSess = [c \in Clients |-> "nil"]
    /\ routes = {}
    /\ dpc = [d \in Dialers |-> "idle"]
    /\ dArg = [d \in Dialers |-> EmptyStr]
    /\ dAddr = [d \in Dialers |-> EmptyStr]
    /\ dClient = [d \in Dialers |-> NoClient]
    /\ dRes = [d \in Dialers |-> "nil"]
    /\ tpc = [t \in Tasks |-> "idle"]
    /\ tClient = [t \in Tasks |-> NoClient]
    /\ tEnv = [t \in Tasks |-> NoEnv]
    /\ tOut = [t \in Tasks |-> "none"]
    /\ tStream = [t \in Tasks |-> "none"]
    /\ handled = {}
    /\ updated = {}
    /\ firstId = [c \in Clients |-> NilId]
    /\ tLate = [t \in Tasks |-> FALSE]
    /\ bpc = "idle"
    /\ bK = 0
    /\ bScan = {}
    /\ bAddrs = <<>>
    /\ bPassed = <<>>
    /\ bTold = {}
    /\ bTodo = <<>>
    /\ fpc = "idle"
    /\ fSelf = EmptyStr
    /\ fIn = <<>>
    /\ fOut = <<>>
    /\ rpc = "idle"
    /\ rClient = NoClient
    /\ rAttempt = 0
    /\ rRes = "nil"
    /\ closedClients = {}
    /\ rOld = "none"
    /\ rSessAtReturn = "none"
    /\ opc = "idle"
    /\ oKind = "none"
    /\ oClient = NoClient
    /\ oStream = "none"
    /\ oRes = "nil"
    /\ oWrote = FALSE
    /\ oSeen = "none"
    /\ lpc = "idle"
    /\ lchan = 0
    /\ wpc = [w \in BootCalls |-> "idle"]
    /\ bootPc = "idle"
    /\ bootRunner = 0
    /\ bootIn = <<>>
    /\ bootFiltered = <<>>
    /\ bootTodo = <<>>
    /\ bootClient = NoClient
    /\ bootLog = <<>>
    /\ bootSent = <<>>

(***************************************************************************)
(* Network.Dial                                                            *)
(***************************************************************************)

\* Network.Dial, lines 125-142: up to the lookup of a cached connection;
\* callers are numbered in the order they call
DialCall(d, a) ==
    /\ dpc[d] = "idle"
    /\ \A e \in Dialers : e < d => dpc[e] # "idle"
    /\ UNCHANGED <<poolVars, auxVars>>
    /\ dArg' = [dArg EXCEPT ![d] = a]
    /\ LET u == ToUnifiedAddress(TrimSpace(a)) IN
        IF TrimSpace(a) = EmptyStr
        THEN /\ dRes' = [dRes EXCEPT ![d] = "cannot dial, address was empty"]
             /\ dpc' = [dpc EXCEPT ![d] = "done"]
             /\ UNCHANGED <<dAddr, dClient>>
        ELSE IF ~u[2]
        THEN /\ dRes' = [dRes EXCEPT ![d] = "unified address error"]
             /\ dpc' = [dpc EXCEPT ![d] = "done"]
             /\ UNCHANGED <<dAddr, dClient>>
        ELSE IF u[1] = Address
        THEN /\ dRes' = [dRes EXCEPT ![d] = "peer should not dial itself"]
             /\ dpc' = [dpc EXCEPT ![d] = "done"]
             /\ UNCHANGED <<dAddr, dClient>>
        ELSE IF peers[u[1]] # NoClient
        THEN /\ dClient' = [dClient EXCEPT ![d] = peers[u[1]]]
             /\ dAddr' = [dAddr EXCEPT ![d] = u[1]]
             /\ dpc' = [dpc EXCEPT ![d] = "done"]
             /\ UNCHANGED dRes
        ELSE /\ dAddr' = [dAddr EXCEPT ![d] = u[1]]
             /\ dpc' = [dpc EXCEPT ![d] = "create"]
             /\ UNCHANGED <<dRes, dClient>>
    /\ UNCHANGED <<peers, nClients, inbound, cId, cSess, routes, tpc, tClient,
                   tEnv, tOut, tStream, handled, updated, firstId, tLate, brVars>>

\* Network.Dial, lines 144-150: createPeerClient and client.Dial(address), the
\* connection part: the transport dial succeeds or fails
DialConnect(d, ok) ==
    /\ dpc[d] = "create"
    /\ nClients < MaxClients
    /\ UNCHANGED <<poolVars, auxVars>>
    /\ nClients' = nClients + 1
    /\ IF ok
       THEN /\ cSess' = [cSess EXCEPT ![nClients + 1] = "open"]
            /\ dClient' = [dClient EXCEPT ![d] = nClients + 1]
            /\ dpc' = [dpc EXCEPT ![d] = "register"]
            /\ UNCHANGED dRes
       ELSE /\ dRes' = [dRes EXCEPT ![d] = "dial failed"]
            /\ dpc' = [dpc EXCEPT ![d] = "done"]
            /\ UNCHANGED <<cSess, dClient>>
    /\ UNCHANGED <<peers, inbound, cId, routes, dArg, dAddr, tpc, tClient,
                   tEnv, tOut, tStream, handled, updated, firstId, tLate, brVars>>

\* client.Dial(address), the insertion into peers (the loser of two
\* simultaneous dials discards its session); Network.Dial, line 152: return
\* client, nil
DialRegister(d) ==
    /\ dpc[d] = "register"
    /\ UNCHANGED <<poolVars, auxVars>>
    /\ peers' = Register(peers, dAddr[d], dClient[d])
    /\ cSess' = IF peers'[dAddr[d]] = dClient[d] THEN cSess
                ELSE [cSess EXCEPT ![dClient[d]] = "closed"]
    /\ dpc' = [dpc EXCEPT ![d] = "done"]
    /\ UNCHANGED <<nClients, inbound, cId, routes, dArg, dAddr, dClient, dRes,
                   tpc, tClient, tEnv, tOut, tStream, handled, updated, firstId, tLate,
                   brVars>>

(***************************************************************************)
(* Network.handleMux and PeerClient.handleMessage                          *)
(***************************************************************************)

\* handleMux, lines 77-85: a connection is accepted, its client is created
AcceptConn ==
    /\ nClients < MaxClients
    /\ Cardinality(inbound) < MaxInbound
    /\ UNCHANGED <<poolVars, auxVars>>
    /\ nClients' = nClients + 1
    /\ inbound' = inbound \cup {nClients + 1}
    /\ UNCHANGED <<peers, cId, cSess, routes, dpc, dArg, dAddr, dClient, dRes,
                   tpc, tClient, tEnv, tOut, tStream, handled, updated, firstId, tLate,
                   brVars>>

\* handleMux, lines 88-98: a stream is accepted and handed to its own
\* goroutine; goroutines are numbered in the order they start
StreamAccept(t, c, e) ==
    /\ tpc[t] = "idle"
    /\ \A u \in Tasks : u < t => tpc[u] # "idle"
    /\ c \in inbound
    /\ UNCHANGED <<poolVars, auxVars>>
    /\ tpc' = [tpc EXCEPT ![t] = "receive"]
    /\ tClient' = [tClient EXCEPT ![t] = c]
    /\ tEnv' = [tEnv EXCEPT ![t] = e]
    /\ tStream' = [tStream EXCEPT ![t] = "open"]
    /\ tLate' = [tLate EXCEPT ![t] = firstId[c] # NilId]
    /\ UNCHANGED <<peers, nClients, inbound, cId, cSess, routes, dpc, dArg,
                   dAddr, dClient, dRes, tOut, handled, updated, firstId, brVars>>

\* The stream's handleMessage returns (defer stream.Close()).
Return(t, why) ==
    /\ tpc' = [tpc EXCEPT ![t] = "done"]
    /\ tOut' = [tOut EXCEPT ![t] = why]
    /\ tStream' = [tStream EXCEPT ![t] = CloseStream(@)]

\* handleMessage, lines 105-111: receiveMessage
Receive(t) ==
    /\ tpc[t] = "receive"
    /\ UNCHANGED <<poolVars, auxVars>>
    /\ IF FailedToReceive(receiveMessage(tEnv[t]))
       THEN Return(t, "receive failed")
       ELSE /\ tpc' = [tpc EXCEPT ![t] = "checkId"]
            /\ UNCHANGED <<tOut, tStream, tStream>>
    /\ UNCHANGED <<peers, nClients, inbound, cId, cSess, routes, dpc, dArg,
                   dAddr, dClient, dRes, tClient, tEnv, handled, updated,
                   firstId, tLate, brVars>>

\* handleMessage, line 117: if c.Id == nil
CheckId(t) ==
    /\ tpc[t] = "checkId"
    /\ UNCHANGED <<poolVars, auxVars>>
    /\ tpc' = [tpc EXCEPT ![t] = IF cId[tClient[t]] = NilId THEN "bind" ELSE "compare"]
    /\ UNCHANGED <<peers, nClients, inbound, cId, cSess, routes, dpc, dArg,
                   dAddr, dClient, dRes, tClient, tEnv, tOut, tStream, handled, updated,
                   firstId, tLate, brVars>>

\* handleMessage, line 118: c.Id = &id
Bind(t) ==
    /\ tpc[t] = "bind"
    /\ UNCHANGED <<poolVars, auxVars>>
    /\ cId' = [cId EXCEPT ![tClient[t]] = tEnv[t].sender]
    /\ firstId' = [firstId EXCEPT ![tClient[t]] = IF @ = NilId THEN tEnv[t].sender ELSE @]
    /\ tpc' = [tpc EXCEPT ![t] = "connect"]
    /\ UNCHANGED <<peers, nClients, inbound, cSess, routes, dpc, dArg, dAddr,
                   dClient, dRes, tClient, tEnv, tOut, tStream, handled, updated, tLate,
                   brVars>>

\* handleMessage, line 120 and establishConnection, lines 34-36
ConnectCheck(t) ==
    /\ tpc[t] = "connect"
    /\ UNCHANGED <<poolVars, auxVars>>
    /\ IF cSess[tClient[t]] # "nil"
       THEN Return(t, "connection already established")
       ELSE /\ tpc' = [tpc EXCEPT ![t] = "dialing"]
            /\ UNCHANGED <<tOut, tStream, tStream>>
    /\ UNCHANGED <<peers, nClients, inbound, cId, cSess, routes, dpc, dArg,
                   dAddr, dClient, dRes, tClient, tEnv, handled, updated,
                   firstId, tLate, brVars>>

\* establishConnection, lines 38-54: the transport dial succeeds or fails; on
\* success the session is stored
ConnectDial(t, ok) ==
    /\ tpc[t] = "dialing"
    /\ UNCHANGED <<poolVars, auxVars>>
    /\ IF ok
       THEN /\ cSess' = [cSess EXCEPT ![tClient[t]] = "open"]
            /\ tpc' = [tpc EXCEPT ![t] = "registering"]
            /\ UNCHANGED <<tOut, tStream, tStream>>
       ELSE /\ Return(t, "dial failed")
            /\ UNCHANGED cSess
    /\ UNCHANGED <<peers, nClients, inbound, cId, routes, dpc, dArg, dAddr,
                   dClient, dRes, tClient, tEnv, handled, updated, firstId,
                   tLate, brVars>>

\* The reverse dial's insertion of the client into peers, under the address
\* dialed (so that a later tell can reach the peer)
ConnectRegister(t) ==
    /\ tpc[t] = "registering"
    /\ UNCHANGED <<poolVars, auxVars>>
    /\ peers' = Register(peers, tEnv[t].sender.address, tClient[t])
    /\ tpc' = [tpc EXCEPT ![t] = "update"]
    /\ UNCHANGED <<nClients, inbound, cId, cSess, routes, dpc, dArg, dAddr,
                   dClient, dRes, tClient, tEnv, tOut, tStream, handled, updated,
                   firstId, tLate, brVars>>

\* handleMessage, lines 127-131: else if !c.Id.Equals(id)
Compare(t) ==
    /\ tpc[t] = "compare"
    /\ UNCHANGED <<poolVars, auxVars>>
    /\ IF IdDiffers(cId[tClient[t]], tEnv[t].sender)
       THEN Return(t, "different id")
       ELSE /\ tpc' = [tpc EXCEPT ![t] = "update"]
            /\ UNCHANGED <<tOut, tStream, tStream>>
    /\ UNCHANGED <<peers, nClients, inbound, cId, cSess, routes, dpc, dArg,
                   dAddr, dClient, dRes, tClient, tEnv, handled, updated,
                   firstId, tLate, brVars>>

\* handleMessage, line 134: c.Network.Routes.Update(id)
Update(t) ==
    /\ tpc[t] = "update"
    /\ UNCHANGED <<poolVars, auxVars>>
    /\ routes' = routes \cup {tEnv[t].sender}
    /\ updated' = updated \cup {t}
    /\ tpc' = [tpc EXCEPT ![t] = "dispatch"]
    /\ UNCHANGED <<peers, nClients, inbound, cId, cSess, dpc, dArg, dAddr,
                   dClient, dRes, tClient, tEnv, tOut, tStream, handled, firstId, tLate,
                   brVars>>

\* handleMessage, lines 136-165: unmarshal, look the processor up, Handle
Dispatch(t) ==
    /\ tpc[t] = "dispatch"
    /\ UNCHANGED <<poolVars, auxVars>>
    /\ IF tEnv[t].body = "malformed"
       THEN Return(t, "unmarshal failed") /\ UNCHANGED handled
       ELSE IF tEnv[t].body = "known"
       THEN Return(t, "handled") /\ handled' = handled \cup {t}
       ELSE Return(t, "unknown message type") /\ UNCHANGED handled
    /\ UNCHANGED <<peers, nClients, inbound, cId, cSess, routes, dpc, dArg,
                   dAddr, dClient, dRes, tClient, tEnv, updated, firstId,
                   tLate, brVars>>

(***************************************************************************)
(* Network.BroadcastRandomly and Network.BroadcastByAddresses              *)
(***************************************************************************)

\* BroadcastRandomly, line 205: var addresses []string
BrStart(K) ==
    /\ bpc \in {"idle", "done"}
    /\ UNCHANGED <<poolVars, auxVars>>
    /\ bpc' = "scan"
    /\ bK' = K
    /\ bScan' = {}
    /\ bAddrs' = <<>>
    /\ bPassed' = <<>>
    /\ bTold' = {}
    /\ bTodo' = <<>>
    /\ UNCHANGED <<peers, nClients, inbound, cId, cSess, routes, dpc, dArg,
                   dAddr, dClient, dRes, tpc, tClient, tEnv, tOut, tStream, handled,
                   updated, firstId, tLate>>

\* BroadcastRandomly, lines 207-216: Range calls the function on one more
\* entry; client.Id.Address dereferences client.Id
BrScan(a) ==
    /\ bpc = "scan"
    /\ a \notin bScan
    /\ peers[a] # NoClient
    /\ UNCHANGED <<poolVars, auxVars>>
    /\ bScan' = bScan \cup {a}
    /\ IF cId[peers[a]] = NilId
       THEN /\ bpc' = "panic"
            /\ UNCHANGED bAddrs
       ELSE /\ bAddrs' = Append(bAddrs, cId[peers[a]].address)
            /\ bpc' = IF Len(bAddrs') > bK * 3 THEN "shuffle" ELSE "scan"
    /\ UNCHANGED <<peers, nClients, inbound, cId, cSess, routes, dpc, dArg,
                   dAddr, dClient, dRes, tpc, tClient, tEnv, tOut, tStream, handled,
                   updated, firstId, tLate, bK, bPassed, bTold, bTodo>>

\* BroadcastRandomly, line 207: Range has visited every entry
BrScanEnd ==
    /\ bpc = "scan"
    /\ \A a \in PeerKeys : peers[a] # NoClient => a \in bScan
    /\ UNCHANGED <<poolVars, auxVars>>
    /\ bpc' = "shuffle"
    /\ UNCHANGED <<peers, nClients, inbound, cId, cSess, routes, dpc, dArg,
                   dAddr, dClient, dRes, tpc, tClient, tEnv, tOut, tStream, handled,
                   updated, firstId, tLate, bK, bScan, bAddrs, bPassed, bTold,
                   bTodo>>

\* The orders rand.Shuffle can leave a list in.
Shuffles(s) ==
    {t \in [1..Len(s) -> {s[i] : i \in 1..Len(s)}] :
        \E f \in [1..Len(s) -> 1..Len(s)] :
            /\ \A i, j \in 1..Len(s) : i # j => f[i] # f[j]
            /\ \A i \in 1..Len(s) : t[i] = s[f[i]]}

\* BroadcastRandomly, lines 223-227: addresses[:K] after K = min(K, len)
Take(s, K) == SubSeq(s, 1, Min(K, Len(s)))

\* BroadcastRandomly, lines 219-227
BrSend ==
    /\ bpc = "shuffle"
    /\ UNCHANGED <<poolVars, auxVars>>
    /\ \E sh \in Shuffles(bAddrs) : bPassed' = Take(sh, bK)
    /\ bTodo' = bPassed'
    /\ bpc' = "tell"
    /\ UNCHANGED <<peers, nClients, inbound, cId, cSess, routes, dpc, dArg,
                   dAddr, dClient, dRes, tpc, tClient, tEnv, tOut, tStream, handled,
                   updated, firstId, tLate, bK, bScan, bAddrs, bTold>>

\* BroadcastByAddresses, lines 170-182: one round of the loop; Tell sends
\* when the client has a session
BrTell ==
    /\ bpc = "tell"
    /\ UNCHANGED <<poolVars, auxVars>>
    /\ IF bTodo = <<>>
       THEN /\ bpc' = "done"
            /\ UNCHANGED <<bTold, bTodo>>
       ELSE /\ bTodo' = Tail(bTodo)
            /\ bTold' = IF peers[Head(bTodo)] # NoClient /\ cSess[peers[Head(bTodo)]] = "open"
                        THEN bTold \cup {peers[Head(bTodo)]}
                        ELSE bTold
            /\ UNCHANGED bpc
    /\ UNCHANGED <<peers, nClients, inbound, cId, cSess, routes, dpc, dArg,
                   dAddr, dClient, dRes, tpc, tClient, tEnv, tOut, tStream, handled,
                   updated, firstId, tLate, bK, bScan, bAddrs, bPassed>>

(***************************************************************************)
(* PeerClient.reestablishConnection and PeerClient.close                   *)
(***************************************************************************)
\* A loop that allows one attempt more.
maxAttemptsMore == 5 + 1

\* reestablishConnection, line 68: maxAttempts := 5
maxAttempts == 5

\* What reestablishConnection and the sessions' ends leave alone.
sessFrame == <<peers, nClients, inbound, cId, dpc, dArg, dAddr, dClient, dRes,
               tpc, tClient, tEnv, tOut, tStream, handled, updated, firstId,
               tLate, brVars>>

\* The remote end, or the transport, ends a session: IsClosed() becomes true.
SessionDies(c) ==
    /\ cSess[c] = "open"
    /\ cSess' = [cSess EXCEPT ![c] = "closed"]
    /\ UNCHANGED <<poolVars, sessFrame, routes, auxVars>>

\* Redial: reestablishConnection is called on a client whose id is known
ReconStart(c) ==
    /\ rpc = "idle"
    /\ c \in 1..nClients
    /\ cId[c] # NilId
    /\ rpc' = "closeOld"
    /\ rClient' = c
    /\ rAttempt' = 0
    /\ UNCHANGED <<poolVars, coreVars, filterVars, bootVars, outVars, rRes, closedClients, rOld,
                   rSessAtReturn>>

\* reestablishConnection, lines 58-64: an open session is closed; Close may
\* report an error
ReconCloseOld(ok) ==
    /\ rpc = "closeOld"
    /\ IF cSess[rClient] = "open"
       THEN IF ok
            THEN /\ cSess' = [cSess EXCEPT ![rClient] = "closed"]
                 /\ rpc' = "reset"
                 /\ rOld' = "closed"
                 /\ UNCHANGED <<rRes, rSessAtReturn>>
            ELSE /\ rpc' = "done"
                 /\ rRes' = "close failed"
                 /\ rOld' = "close failed"
                 /\ rSessAtReturn' = cSess[rClient]
                 /\ UNCHANGED cSess
       ELSE /\ rpc' = "reset"
            /\ rOld' = "not open"
            /\ UNCHANGED <<cSess, rRes, rSessAtReturn>>
    /\ UNCHANGED <<poolVars, sessFrame, routes, filterVars, bootVars, outVars, rClient,
                   rAttempt, closedClients>>

\* reestablishConnection, lines 66-69: c.Backoff.Reset(); c.Session = nil
ReconReset ==
    /\ rpc = "reset"
    /\ cSess' = [cSess EXCEPT ![rClient] = "nil"]
    /\ rpc' = "loop"
    /\ UNCHANGED <<poolVars, sessFrame, routes, filterVars, bootVars, outVars, rClient,
                   rAttempt, rRes, closedClients, rOld, rSessAtReturn>>

\* PeerClient.close, lines 91-99
close(c) == IF cId[c] # NilId THEN routes \ {cId[c]} ELSE routes

\* reestablishConnection, lines 71-76: the head of the loop
ReconLoop ==
    /\ rpc = "loop"
    /\ IF rAttempt >= maxAttempts
       THEN /\ routes' = close(rClient)
            /\ closedClients' = closedClients \cup {rClient}
            /\ rRes' = "unable to reestablish connection"
            /\ rpc' = "done"
            /\ rSessAtReturn' = cSess[rClient]
            /\ UNCHANGED rAttempt
       ELSE /\ rAttempt' = rAttempt + 1
            /\ rpc' = "attempt"
            /\ UNCHANGED <<routes, closedClients, rRes, rSessAtReturn>>
    /\ UNCHANGED <<poolVars, sessFrame, cSess, filterVars, bootVars, outVars, rClient,
                   rOld>>

\* reestablishConnection, line 78 and establishConnection, lines 34-36; an
\* error leads back to the head of the loop after the backoff's sleep
ReconAttempt ==
    /\ rpc = "attempt"
    /\ rpc' = IF cSess[rClient] # "nil" THEN "loop" ELSE "dialing"
    /\ UNCHANGED <<poolVars, coreVars, filterVars, bootVars, outVars, rClient, rAttempt,
                   rRes, closedClients, rOld, rSessAtReturn>>

\* establishConnection, lines 38-54 and reestablishConnection, lines 79-88
ReconDial(ok) ==
    /\ rpc = "dialing"
    /\ IF ok
       THEN /\ cSess' = [cSess EXCEPT ![rClient] = "open"]
            /\ rpc' = "done"
            /\ rRes' = "nil"
            /\ rSessAtReturn' = cSess'[rClient]
       ELSE /\ rpc' = "loop"
            /\ UNCHANGED <<cSess, rRes, rSessAtReturn>>
    /\ UNCHANGED <<poolVars, sessFrame, routes, filterVars, bootVars, outVars, rClient,
                   rAttempt, closedClients, rOld>>

(***************************************************************************)
(* PeerClient.Tell and PeerClient.Request                                  *)
(***************************************************************************)

\* Tell(message) or Request(req) is called on a client
OutCall(kind, c) ==
    /\ opc = "idle"
    /\ c \in 1..nClients
    /\ opc' = "check"
    /\ oKind' = kind
    /\ oClient' = c
    /\ UNCHANGED <<poolVars, coreVars, filterVars, bootVars, reconVars, oStream, oRes,
                   oWrote, oSeen>>

\* Tell, lines 198-200, Request, lines 221-223: if c.Session == nil
OutCheck ==
    /\ opc = "check"
    /\ oSeen' = cSess[oClient]
    /\ IF cSess[oClient] = "nil"
       THEN /\ opc' = "done"
            /\ oRes' = "client session nil"
       ELSE /\ opc' = "open"
            /\ UNCHANGED oRes
    /\ UNCHANGED <<poolVars, coreVars, filterVars, bootVars, reconVars, oKind, oClient,
                   oStream, oWrote>>

\* The session c.Session.OpenStream() is called on.  Tell, lines 198 and 203,
\* Request, lines 221 and 226, read c.Session twice without synchronisation
\* while reestablishConnection writes it: the second read yields the field's
\* current value (reread) or the pointer found by the nil check.  A session
\* that was found open by the nil check is by now either still open (wasOpen)
\* or closed; it cannot be open when the client's session is found closed.
OpenedSession(reread, wasOpen) ==
    IF reread THEN cSess[oClient]
    ELSE IF oSeen = "open" /\ wasOpen /\ cSess[oClient] # "closed" THEN "open"
    ELSE "closed"

\* Tell, lines 203-207, Request, lines 226-230: c.Session.OpenStream() on a
\* nil session dereferences nil, on a closed one it returns an error
OutOpen(reread, wasOpen) ==
    /\ opc = "open"
    /\ oSeen' = OpenedSession(reread, wasOpen)
    /\ IF OpenedSession(reread, wasOpen) = "nil"
       THEN /\ opc' = "panic"
            /\ UNCHANGED <<oRes, oStream>>
       ELSE IF OpenedSession(reread, wasOpen) = "closed"
       THEN /\ opc' = "done"
            /\ oRes' = "broken pipe"
            /\ UNCHANGED oStream
       ELSE /\ opc' = "send"
            /\ oStream' = "open"
            /\ UNCHANGED oRes
    /\ UNCHANGED <<poolVars, coreVars, filterVars, bootVars, reconVars, oKind, oClient,
                   oWrote>>

\* Tell, lines 210-216, Request, lines 232-239: sendMessage writes the envelope
\* or fails
OutSend(ok) ==
    /\ opc = "send"
    /\ IF ~ok
       THEN /\ opc' = "done"
            /\ oRes' = "send failed"
            /\ oStream' = CloseStream(oStream)
            /\ UNCHANGED oWrote
       ELSE /\ oWrote' = TRUE
            /\ IF oKind = "tell"
               THEN /\ opc' = "done"
                    /\ oRes' = "nil"
                    /\ oStream' = CloseStream(oStream)
               ELSE /\ opc' = "recv"
                    /\ UNCHANGED <<oRes, oStream>>
    /\ UNCHANGED <<poolVars, coreVars, filterVars, bootVars, reconVars, oKind, oClient,
                   oSeen>>

\* Request, lines 242-246: receiveMessage
OutRecv(ok) ==
    /\ opc = "recv"
    /\ IF ok
       THEN /\ opc' = "unmarshal"
            /\ UNCHANGED <<oRes, oStream>>
       ELSE /\ opc' = "done"
            /\ oRes' = "receive failed"
            /\ oStream' = CloseStream(oStream)
    /\ UNCHANGED <<poolVars, coreVars, filterVars, bootVars, reconVars, oKind, oClient,
                   oWrote, oSeen>>

\* Request, lines 249-254: UnmarshalAny and return
OutUnmarshal(ok) ==
    /\ opc = "unmarshal"
    /\ opc' = "done"
    /\ oRes' = IF ok THEN "nil" ELSE "unmarshal failed"
    /\ oStream' = CloseStream(oStream)
    /\ UNCHANGED <<poolVars, coreVars, filterVars, bootVars, reconVars, oKind, oClient,
                   oWrote, oSeen>>

(***************************************************************************)
(* FilterPeers                                                             *)
(***************************************************************************)
MaxList == 3

\* The node's address as a caller of FilterPeers passes it: in resolved form,
\* or as FormatAddress makes it from the configured host name.
FilterSelves == {Str("tcp://", "127.0.0.1", SelfPort), Str("tcp://", "localhost", SelfPort)}

\* The entries of the lists FilterPeers is given.
FilterInputs ==
    { EmptyStr, Padded(EmptyStr),
      Str("tcp://", "127.0.0.1", 3001), Str("tcp://", "localhost", 3001),
      Padded(Str("tcp://", "127.0.0.1", 3001)), Str("tcp://", "127.0.0.1", 3002),
      Str("tcp://", "127.0.0.1", SelfPort), Str("tcp://", "localhost", SelfPort),
      Str("tcp://", "nohost", 3001) }

SeqsUpTo(S, n) == UNION {[1..m -> S] : m \in 0..n}

\* FilterPeers, lines 64-77: the loop over peers
RECURSIVE FilterLoop(_, _, _)
FilterLoop(xs, visited, filtered) ==
    IF xs = <<>> THEN filtered
    ELSE IF Head(xs) = EmptyStr THEN FilterLoop(Tail(xs), visited, filtered)
    ELSE IF ~ToUnifiedAddress(Head(xs))[2] THEN FilterLoop(Tail(xs), visited, filtered)
    ELSE IF ToUnifiedAddress(Head(xs))[1] \in visited THEN FilterLoop(Tail(xs), visited, filtered)
    ELSE FilterLoop(Tail(xs), visited \cup {ToUnifiedAddress(Head(xs))[1]},
                    Append(filtered, ToUnifiedAddress(Head(xs))[1]))

\* FilterPeers(address, peers)
FilterPeers(address, xs) == FilterLoop(xs, {address}, <<>>)

\* A call of FilterPeers
FilterCall(self, xs) ==
    /\ fpc = "idle"
    /\ fpc' = "done"
    /\ fSelf' = self
    /\ fIn' = xs
    /\ fOut' = FilterPeers(self, xs)
    /\ UNCHANGED <<poolVars, coreVars, reconVars, outVars, bootVars>>

FilterNext == \E self \in FilterSelves, xs \in SeqsUpTo(FilterInputs, MaxList) : FilterCall(self, xs)

(***************************************************************************)
(* Network.Listen and Network.Bootstrap                                    *)
(***************************************************************************)

\* The capacities the Listening channel may have been made with.
ChanCaps == {0, 1}

\* go net.Listen()
ListenCall ==
    /\ lpc = "idle"
    /\ lpc' = "bind"
    /\ UNCHANGED <<poolVars, coreVars, filterVars, reconVars, outVars, lchan,
                   lcap, wpc, bootPc, bootRunner, bootIn, bootFiltered,
                   bootTodo, bootClient, bootLog, bootSent>>

\* Listen, lines 56-60: kcp.ListenWithOptions binds the port or fails
ListenBind(ok) ==
    /\ lpc = "bind"
    /\ lpc' = IF ok THEN "signal" ELSE "fatal"
    /\ UNCHANGED <<poolVars, coreVars, filterVars, reconVars, outVars, lchan,
                   lcap, wpc, bootPc, bootRunner, bootIn, bootFiltered,
                   bootTodo, bootClient, bootLog, bootSent>>

\* Listen, line 62: n.Listening <- struct{}{} into a free buffer slot; Listen
\* goes on to accept connections
ListenSend ==
    /\ lpc = "signal"
    /\ lchan < lcap
    /\ lchan' = lchan + 1
    /\ lpc' = "accepting"
    /\ UNCHANGED <<poolVars, coreVars, filterVars, reconVars, outVars, lcap,
                   wpc, bootPc, bootRunner, bootIn, bootFiltered, bootTodo,
                   bootClient, bootLog, bootSent>>

\* net.Bootstrap(peers...) is called and reaches line 104; calls are numbered
\* in the order they are made
BootCall(w) ==
    /\ wpc[w] = "idle"
    /\ \A v \in BootCalls : v < w => wpc[v] # "idle"
    /\ wpc' = [wpc EXCEPT ![w] = "waiting"]
    /\ UNCHANGED <<poolVars, coreVars, filterVars, reconVars, outVars, lpc,
                   lchan, lcap, bootPc, bootRunner, bootIn, bootFiltered,
                   bootTodo, bootClient, bootLog, bootSent>>

\* Bootstrap, line 104: <-n.Listening takes a buffered token, or the token of
\* a Listen that is blocked in its send at line 62
BootRecv(w) ==
    /\ wpc[w] = "waiting"
    /\ IF lchan > 0
       THEN /\ lchan' = lchan - 1
            /\ UNCHANGED lpc
       ELSE /\ lpc = "signal"
            /\ lpc' = "accepting"
            /\ UNCHANGED lchan
    /\ wpc' = [wpc EXCEPT ![w] = "passed"]
    /\ bootRunner' = w
    /\ bootPc' = "filter"
    /\ UNCHANGED <<poolVars, coreVars, filterVars, reconVars, outVars, lcap,
                   bootIn, bootFiltered, bootTodo, bootClient, bootLog,
                   bootSent>>

\* Bootstrap, line 106: addresses = FilterPeers(n.Host, n.Port, addresses)
BootFilter(self, xs) ==
    /\ bootPc = "filter"
    /\ bootIn' = xs
    /\ bootFiltered' = FilterPeers(self, xs)
    /\ bootTodo' = FilterPeers(self, xs)
    /\ bootPc' = "loop"
    /\ UNCHANGED <<poolVars, coreVars, filterVars, reconVars, outVars, lpc,
                   lchan, lcap, wpc, bootRunner, bootClient, bootLog, bootSent>>

\* Bootstrap, line 108: the next address of the range, or the end of it
BootLoop ==
    /\ bootPc = "loop"
    /\ bootPc' = IF bootTodo = <<>> THEN "done" ELSE "dial"
    /\ UNCHANGED <<poolVars, coreVars, filterVars, reconVars, outVars, lpc,
                   lchan, lcap, wpc, bootRunner, bootIn, bootFiltered,
                   bootTodo, bootClient, bootLog, bootSent>>

\* Bootstrap, line 109: client, err := n.Dial(address)
BootDial ==
    /\ bootPc = "dial"
    /\ DialCall(1, Head(bootTodo))

\* A range that ends at the first address that failed.
AfterFailureStop(todo) == <<>>

\* Bootstrap, lines 112 and 119: continue
AfterFailure(todo) == Tail(todo)

\* Bootstrap, lines 109-113: Dial has returned; on an error the loop continues
\* with the next address
BootDialReturn ==
    /\ bootPc = "dial"
    /\ dpc[1] = "done"
    /\ IF dRes[1] # "nil"
       THEN /\ bootLog' = Append(bootLog, [addr |-> Head(bootTodo), dial |-> FALSE,
                                            tell |-> "none"])
            /\ bootTodo' = AfterFailure(bootTodo)
            /\ bootPc' = "loop"
            /\ UNCHANGED bootClient
       ELSE /\ bootClient' = dClient[1]
            /\ bootPc' = "tell"
            /\ UNCHANGED <<bootLog, bootTodo>>
    /\ dpc' = [dpc EXCEPT ![1] = "idle"]
    /\ dArg' = [dArg EXCEPT ![1] = EmptyStr]
    /\ dAddr' = [dAddr EXCEPT ![1] = EmptyStr]
    /\ dClient' = [dClient EXCEPT ![1] = NoClient]
    /\ dRes' = [dRes EXCEPT ![1] = "nil"]
    /\ UNCHANGED <<poolVars, peers, nClients, inbound, cId, cSess, routes, tpc,
                   tClient, tEnv, tOut, tStream, handled, updated, firstId,
                   tLate, brVars, filterVars, reconVars, outVars, lpc, lchan,
                   lcap, wpc, bootRunner, bootIn, bootFiltered, bootSent>>

\* What client.Tell returns (Tell, lines 198-216); ok: sendMessage succeeds
TellResult(c, ok) ==
    IF cSess[c] = "nil" THEN "client session nil"
    ELSE IF cSess[c] = "closed" THEN "broken pipe"
    ELSE IF ok THEN "nil"
    ELSE "send failed"

\* Bootstrap, lines 116-120: client.Tell(&protobuf.HandshakeRequest{}); on an
\* error the loop continues with the next address
BootTell(ok) ==
    /\ bootPc = "tell"
    /\ bootLog' = Append(bootLog, [addr |-> Head(bootTodo), dial |-> TRUE,
                                   tell |-> TellResult(bootClient, ok)])
    /\ bootSent' = IF TellResult(bootClient, ok) = "nil"
                   THEN Append(bootSent, Head(bootTodo)) ELSE bootSent
    /\ bootTodo' = IF TellResult(bootClient, ok) = "nil"
                   THEN Tail(bootTodo) ELSE AfterFailure(bootTodo)
    /\ bootPc' = "loop"
    /\ UNCHANGED <<poolVars, coreVars, filterVars, reconVars, outVars, lpc,
                   lchan, lcap, wpc, bootRunner, bootIn, bootFiltered,
                   bootClient>>

\* A node that listens while Bootstrap is called; the sessions of the peers
\* it dialed may end.
BootNext ==
    \/ ListenCall
    \/ \E ok \in BOOLEAN : ListenBind(ok)
    \/ ListenSend
    \/ \E w \in BootCalls : BootCall(w)
    \/ \E w \in BootCalls : BootRecv(w)
    \/ \E self \in FilterSelves, xs \in SeqsUpTo(BootAddrs, MaxBoot) :
        BootFilter(self, xs)
    \/ BootLoop
    \/ BootDial
    \/ \E ok \in BOOLEAN : DialConnect(1, ok)
    \/ DialRegister(1)
    \/ BootDialReturn
    \/ \E ok \in BOOLEAN : BootTell(ok)
    \/ \E c \in Clients : SessionDies(c)

\* The dial requests the node's user makes.
DialStep ==
    \/ \E d \in Dialers, a \in DialInputs :
        DialCall(d, a)
    \/ \E d \in Dialers, ok \in BOOLEAN : DialConnect(d, ok)
    \/ \E d \in Dialers : DialRegister(d)

\* The inbound side: connections, and one goroutine per stream.
IngestStep ==
    \/ AcceptConn
    \/ \E t \in Tasks, c \in Clients, e \in Envelopes :
        StreamAccept(t, c, e)
    \/ \E t \in Tasks : Receive(t)
    \/ \E t \in Tasks : CheckId(t)
    \/ \E t \in Tasks : Bind(t)
    \/ \E t \in Tasks : ConnectCheck(t)
    \/ \E t \in Tasks, ok \in BOOLEAN : ConnectDial(t, ok)
    \/ \E t \in Tasks : ConnectRegister(t)
    \/ \E t \in Tasks : Compare(t)
    \/ \E t \in Tasks : Update(t)
    \/ \E t \in Tasks : Dispatch(t)

BroadcastStep ==
    \/ \E K \in 0..MaxK : BrStart(K)
    \/ \E a \in PeerKeys : BrScan(a)
    \/ BrScanEnd
    \/ BrSend
    \/ BrTell

DialNext == DialStep

IngestNext == IngestStep

\* The inbound side with one stream slot fewer.
AuthNext ==
    \/ AcceptConn
    \/ \E t \in Tasks, c \in Clients, e \in Envelopes :
        t < NTasks /\ StreamAccept(t, c, e)
    \/ \E t \in Tasks : Receive(t)
    \/ \E t \in Tasks : CheckId(t)
    \/ \E t \in Tasks : Bind(t)
    \/ \E t \in Tasks : ConnectCheck(t)
    \/ \E t \in Tasks, ok \in BOOLEAN : ConnectDial(t, ok)
    \/ \E t \in Tasks : ConnectRegister(t)
    \/ \E t \in Tasks : Compare(t)
    \/ \E t \in Tasks : Update(t)
    \/ \E t \in Tasks : Dispatch(t)

\* A node that broadcasts while it dials one peer and serves inbound streams
\* that carry well-formed envelopes.
NetDialInputs == {Str("tcp://", "127.0.0.1", 3001)}
NetEnvelopes == {e \in Envelopes : Verify(e) /\ e.body = "known"}

NetNext ==
    \/ \E a \in NetDialInputs : DialCall(1, a)
    \/ \E ok \in BOOLEAN : DialConnect(1, ok)
    \/ DialRegister(1)
    \/ AcceptConn
    \/ \E t \in Tasks, c \in Clients, e \in NetEnvelopes :
        t < NTasks /\ StreamAccept(t, c, e)
    \/ \E t \in Tasks : Receive(t)
    \/ \E t \in Tasks : CheckId(t)
    \/ \E t \in Tasks : Bind(t)
    \/ \E t \in Tasks : ConnectCheck(t)
    \/ \E t \in Tasks, ok \in BOOLEAN : ConnectDial(t, ok)
    \/ \E t \in Tasks : ConnectRegister(t)
    \/ \E t \in Tasks : Compare(t)
    \/ \E t \in Tasks : Update(t)
    \/ \E t \in Tasks : Dispatch(t)
    \/ BroadcastStep

\* The envelopes of one peer that keeps to the protocol.
ReconEnvelopes == {e \in NetEnvelopes : e.sender = PeerX}

\* Inbound streams served while a reconnect or an outbound call is followed.
NStreams == 2

\* The steps of the inbound streams: they arrive on the clients cs and carry
\* envelopes among es.
StreamSteps(es, cs) ==
    \/ AcceptConn
    \/ \E t \in 1..NStreams, c \in cs, e \in es :
        StreamAccept(t, c, e)
    \/ \E t \in Tasks : Receive(t)
    \/ \E t \in Tasks : CheckId(t)
    \/ \E t \in Tasks : Bind(t)
    \/ \E t \in Tasks : ConnectCheck(t)
    \/ \E t \in Tasks, ok \in BOOLEAN : ConnectDial(t, ok)
    \/ \E t \in Tasks : ConnectRegister(t)
    \/ \E t \in Tasks : Compare(t)
    \/ \E t \in Tasks : Update(t)
    \/ \E t \in Tasks : Dispatch(t)

ReconSteps ==
    \/ \E c \in Clients : ReconStart(c)
    \/ \E ok \in BOOLEAN : ReconCloseOld(ok)
    \/ ReconReset
    \/ ReconLoop
    \/ ReconAttempt
    \/ \E ok \in BOOLEAN : ReconDial(ok)

OutSteps ==
    \/ \E kind \in {"tell", "request"}, c \in Clients : OutCall(kind, c)
    \/ OutCheck
    \/ \E reread, wasOpen \in BOOLEAN : OutOpen(reread, wasOpen)
    \/ \E ok \in BOOLEAN : OutSend(ok)
    \/ \E ok \in BOOLEAN : OutRecv(ok)
    \/ \E ok \in BOOLEAN : OutUnmarshal(ok)

\* A client whose session ends and is re-established, next to the inbound
\* streams of its connection, the first one accepted, that make its id known.
ReconNext ==
    \/ StreamSteps(ReconEnvelopes, 1..1)
    \/ \E c \in Clients : SessionDies(c)
    \/ ReconSteps

\* The same client, told and asked things meanwhile.
TellNext ==
    \/ ReconNext
    \/ OutSteps

\* Inbound streams of every kind next to a Tell or Request.
StreamNext ==
    \/ StreamSteps(Envelopes, Clients)
    \/ \E c \in Clients : SessionDies(c)
    \/ OutSteps

\* Callers run concurrently: any of them takes the next step.
Next ==
    \/ Tick
    \/ \E p \in Procs : PoolStep(p, ConcKeys)

\* A single-threaded user of the pool (pool_test.go): an operation runs to its
\* end before the next one starts.
SeqNext ==
    \/ Tick
    \/ PoolStep(1, Keys)

\* The Listening channel is unbuffered unless stated otherwise.
Init == PoolInit /\ NetInit /\ lcap = 0

\* The node with a Listening channel of either capacity.
BootInit == PoolInit /\ NetInit /\ lcap \in ChanCaps

Spec == Init /\ [][Next]_vars

SpecSeq == Init /\ [][SeqNext]_vars

SpecDial == Init /\ [][DialNext]_vars

SpecIngest == Init /\ [][IngestNext]_vars

SpecNet == Init /\ [][NetNext]_vars

SpecAuth == Init /\ [][AuthNext]_vars

SpecFilter == Init /\ [][FilterNext]_vars

SpecRecon == Init /\ [][ReconNext]_vars

SpecTell == Init /\ [][TellNext]_vars

SpecStream == Init /\ [][StreamNext]_vars

SpecBoot == BootInit /\ [][BootNext]_vars

(***************************************************************************)
(* Properties of the pool.                                                 *)
(***************************************************************************)

\* Get(k) returns the object's own handle.
Found(o) == Get(oKey[o]) = <<oHandle[o], TRUE>>

C2_RenewalDefeatsEviction ==
    \A o \in Allocated : ~disturbed[o] /\ renewUntil[o] # NoTime =>
        /\ now < renewUntil[o] => Found(o) /\ closes[o] = 0
        /\ pc[1] = "gcDone" /\ curTime[1] < renewUntil[o] =>
               Found(o) /\ closes[o] = 0 /\ o \notin gcClosed[1] \cup gcDeleted[1]

\* C2 witness: a Gc run after the original deadline and before the renewed one
\* has completed and the entry is still there.
C2_Witness ==
    \E o \in Allocated :
        /\ ~disturbed[o] /\ renewUntil[o] # NoTime /\ pc[1] = "gcDone"
        /\ addedAt[o] + oAlive[o] < curTime[1] /\ curTime[1] < renewUntil[o]
        /\ Found(o) /\ closes[o] = 0

\* C3: Close is invoked at most once on the handle of every entry, under every
\* interleaving of the callers.
C3_AtMostOneClose == \A o \in Oids : closes[o] <= 1

\* C4: an entry renewed between a Gc run's Range and its Delete/Close of the
\* entry's key (to an expiry not before that run's curTime) is neither deleted
\* nor closed by that run.
C4_NoSpuriousClose ==
    \A p \in Procs : renewedMid[p] \cap (gcDeleted[p] \cup gcClosed[p]) = {}

\* C5: a Gc run that starts right after a completed Gc run, at the same time
\* and with no other activity in between, deletes nothing and closes nothing.
C5_GcIdempotent ==
    \A p \in Procs : second[p] =>
        /\ gcDeleted[p] = {} /\ gcClosed[p] = {}
        /\ pc[p] \notin {"gcDelete", "gcClose"}

\* C5 witness: the second of two successive Gc runs has completed, the first
\* one having evicted an entry.
C5_Witness ==
    /\ second[1] /\ pc[1] = "gcDone"
    /\ \E o \in Allocated : closes[o] = 1 /\ ~disturbed[o]


(***************************************************************************)
(* Properties of the network.                                              *)
(***************************************************************************)

\* A Dial call that has returned a client and no error.
Dialed(d) == dpc[d] = "done" /\ dRes[d] = "nil" /\ dClient[d] # NoClient

\* C6: peer dedup.  Dial calls whose addresses have the same canonical form
\* all receive the same PeerClient, two simultaneous ones included.
C6_PeerDedup ==
    \A d, e \in Dialers :
        Dialed(d) /\ Dialed(e) /\ dAddr[d] = dAddr[e] => dClient[d] = dClient[e]

\* The canonical form of a denotes the node's own host and port.
DenotesSelf(a) ==
    /\ ToUnifiedAddress(a)[2]
    /\ ToUnifiedAddress(a)[1].host = SelfHost
    /\ ToUnifiedAddress(a)[1].port = SelfPort

\* C7: self-dial.  A Dial call with an address whose canonical form denotes
\* the node's own address returns the self-dial error and creates no client;
\* it never gets as far as creating a client or connecting.
C7_SelfDialRejected ==
    \A d \in Dialers :
        dpc[d] # "idle" /\ DenotesSelf(dArg[d]) =>
            /\ dpc[d] = "done"
            /\ dRes[d] = "peer should not dial itself"
            /\ dClient[d] = NoClient

\* C8: authentication before dispatch.  A stream whose envelope fails the
\* signature verification never reaches Routes.Update or a processor: its
\* handleMessage returns from the receive step, and the client is not closed.
C8_AuthBeforeDispatch ==
    \A t \in Tasks :
        tpc[t] # "idle" /\ ~Verify(tEnv[t]) =>
            /\ t \notin handled
            /\ t \notin updated
            /\ tpc[t] \in {"receive", "done"}
            /\ tpc[t] = "done" => tOut[t] = "receive failed"
            /\ cSess[tClient[t]] # "closed"

\* A forged envelope was received and dropped while another stream of the
\* same client had its envelope handled.
C8_Witness ==
    \E t, u \in Tasks :
        /\ tpc[t] = "done" /\ ~Verify(tEnv[t]) /\ tOut[t] = "receive failed"
        /\ tClient[u] = tClient[t] /\ u \in handled

\* C9: identity binding.  An envelope that arrives on a client after the
\* client's id was bound to X and whose sender is not X is dropped: it neither
\* reaches Routes.Update nor a processor.
C9_IdentityBinding ==
    \A t \in Tasks :
        tLate[t] /\ tEnv[t].sender # firstId[tClient[t]] =>
            t \notin updated /\ t \notin handled

\* The addresses at the positions of s are pairwise distinct.
Distinct(s) == \A i, j \in 1..Len(s) : i # j => s[i] # s[j]

C15_ExpiresAtMonotone ==
    [][\A o \in Allocated : oExp'[o] >= oExp[o]]_vars


(***************************************************************************)
(* Further properties of the network.                                      *)
(***************************************************************************)

\* C20: a client's id is written at most once.  Once bound, the id stays what
\* the first binding made it, and the envelopes that update the routing table
\* or reach a processor through one client all have the same sender.
C20_IdWrittenOnce ==
    /\ \A c \in Clients : firstId[c] # NilId => cId[c] = firstId[c]
    /\ \A t, u \in updated \cup handled :
        tClient[t] = tClient[u] => tEnv[t].sender = tEnv[u].sender


\* The resolved form of a, or a itself when it has none.
Resolved(a) == IF ToUnifiedAddress(a)[2] THEN ToUnifiedAddress(a)[1] ELSE a

\* The positions of xs whose entries FilterPeers is to keep: resolvable, not
\* the node itself, and not resolving to what an earlier entry resolves to.
Kept(self, xs) ==
    {i \in 1..Len(xs) :
        /\ ToUnifiedAddress(xs[i])[2]
        /\ Resolved(xs[i]) # Resolved(self)
        /\ \A j \in 1..(i - 1) : Resolved(xs[j]) # Resolved(xs[i])}

\* out lists the resolved forms of xs at the positions of K, in their order.
IsSubsequenceAt(out, xs, K) ==
    /\ Len(out) = Cardinality(K)
    /\ \A n \in 1..Len(out) :
        \E i \in K : /\ Cardinality({j \in K : j < i}) = n - 1
                     /\ out[n] = Resolved(xs[i])

\* C11: the list FilterPeers returns has no empty entry, does not contain the
\* node's own resolved address, has no entry twice, and lists, in the order of
\* the input, the resolved form of the first occurrence of each address.
C11_FilterPeers ==
    fpc = "done" =>
        /\ \A n \in 1..Len(fOut) : fOut[n] # EmptyStr /\ fOut[n] # Resolved(fSelf)
        /\ Distinct(fOut)
        /\ IsSubsequenceAt(fOut, fIn, Kept(fSelf, fIn))


\* reestablishConnection is between its call and its return.
Reconnecting == rpc \in {"closeOld", "reset", "loop", "attempt", "dialing"}

C16_ClosedClientGone ==
    \A c \in closedClients :
        /\ cId[c] \notin routes
        /\ cSess[c] # "open"
        /\ \A a \in PeerKeys : peers[a] # c

\* C17: Tell and Request never operate on a nil session, and when the session
\* they found was nil or closed they return an error and write no envelope.
C17_ToleratesMissingSession ==
    /\ opc # "panic"
    /\ opc = "done" /\ oSeen \in {"nil", "closed"} => oRes # "nil" /\ ~oWrote

\* C18: stream scoping.  The stream of an inbound handleMessage and the stream
\* a Tell or Request opened are open while the operation runs and closed once
\* it has returned, whatever the way it returned.
C18_StreamScoping ==
    /\ \A t \in Tasks :
        /\ tpc[t] = "done" => tStream[t] = "closed"
        /\ tpc[t] \notin {"idle", "done"} => tStream[t] = "open"
    /\ opc = "done" => oStream \in {"none", "closed"}
    /\ opc = "done" /\ oWrote => oStream = "closed"
    /\ opc \in {"send", "recv", "unmarshal"} => oStream = "open"

\* An inbound stream was dropped for its sender's id and a Request failed
\* after its stream was opened; both streams are closed.
C18_Witness ==
    /\ \E t \in Tasks : tpc[t] = "done" /\ tOut[t] = "different id" /\ tStream[t] = "closed"
    /\ opc = "done" /\ oKind = "request" /\ oRes = "receive failed" /\ oStream = "closed"


\* The number of times a occurs in the sequence xs.
Count(xs, a) == Cardinality({i \in 1..Len(xs) : xs[i] = a})

\* The addresses of the entries of log whose Tell returned nil, in order.
RECURSIVE ToldOf(_)
ToldOf(log) ==
    IF log = <<>> THEN <<>>
    ELSE IF Head(log).tell = "nil" THEN <<Head(log).addr>> \o ToldOf(Tail(log))
    ELSE ToldOf(Tail(log))

\* C13: Bootstrap dials nothing before Listen has signalled Listening; it
\* ranges over the filtered addresses in order, sends one HandshakeRequest to
\* each address whose Dial and Tell succeeded and none to an address whose
\* Dial or Tell failed, and a failure does not end the range: when Bootstrap
\* returns every filtered address has been dialed.
C13_Bootstrap ==
    /\ bootPc \in {"dial", "tell", "done"} \/ bootLog # <<>> \/ dpc[1] # "idle"
            \/ nClients > 0 => lpc = "accepting"
    /\ Len(bootLog) <= Len(bootFiltered)
    /\ \A i \in 1..Len(bootLog) : bootLog[i].addr = bootFiltered[i]
    /\ bootSent = ToldOf(bootLog)
    /\ \A i \in 1..Len(bootLog) :
            Count(bootSent, bootLog[i].addr) =
                IF bootLog[i].dial /\ bootLog[i].tell = "nil" THEN 1 ELSE 0
    /\ bootPc = "done" => Len(bootLog) = Len(bootFiltered)

\* Bootstrap has returned after a Dial that failed, a later Dial that
\* succeeded, and one HandshakeRequest, sent to the address of the latter.
C13_Witness ==
    /\ bootPc = "done"
    /\ Len(bootLog) = 2
    /\ ~bootLog[1].dial
    /\ bootLog[2].dial /\ bootLog[2].tell = "nil"
    /\ bootSent = <<bootFiltered[2]>>

\* C19: once Listen has signalled, every Bootstrap call that waits on
\* Listening can proceed, and Listen is not held at its signal when no call
\* waits.
C19_ListeningOneShot ==
    /\ \A w \in BootCalls :
            lpc = "accepting" /\ wpc[w] = "waiting" => ENABLED BootRecv(w)
    /\ lpc = "signal" /\ (\A w \in BootCalls : wpc[w] # "waiting") =>
            ENABLED ListenSend


\* C21: the scan of BroadcastRandomly stops once 3K addresses are gathered:
\* for every K >= 0 the list of candidates never holds more than
\* min(3K, |peers|) addresses.
C21_SamplerBound ==
    Len(bAddrs) <= Min(3 * bK, PeersSize)


\* C22: Gc removes exactly what it closes, under every interleaving with Add
\* and Remove of the same key.  What a Gc run deleted from the map and what
\* it closed are the same entries (but for the entry it is about to close),
\* and none of them was added at or after the run's curTime, when its expiry
\* cannot be before curTime.
C22_GcRemovesWhatItCloses ==
    \A p \in Procs :
        /\ pc[p] \in {"gcLoop", "gcDone"} => gcDeleted[p] = gcClosed[p]
        /\ pc[p] = "gcClose" =>
               gcClosed[p] \subseteq gcDeleted[p] /\ gcDeleted[p] \ gcClosed[p] = {lobj[p]}
        /\ \A o \in gcDeleted[p] \cup gcClosed[p] : addedAt[o] < curTime[p]

\* C23: no session is leaked.  A step of establishConnection that stores a
\* session (the task goes from its dial to the registration of the client)
\* finds client.Session not open, so no open session is overwritten; and
\* establishConnection on a client whose session is not nil returns without
\* dialing and leaves the session alone.
C23_NoLeakedSession ==
    [][\A t \in Tasks :
        /\ (tpc[t] = "dialing" /\ tpc'[t] = "registering") =>
               cSess[tClient[t]] # "open"
        /\ (tpc[t] = "connect" /\ tpc'[t] # "connect" /\ cSess[tClient[t]] # "nil") =>
               tpc'[t] # "dialing" /\ cSess' = cSess]_vars

====
